---- MODULE Spec2Model ----
(***************************************************************************)
(* Fraud scoring: the rule evaluator (FraudDetector), the model-backed     *)
(* detector (LLMFraudDetector, OllamaClient) and the ensemble combiner     *)
(* (EnsembleFraudDetector), as called by the /predict route.               *)
(*                                                                         *)
(* Numbers.  Every score, weight and threshold is a fixed-point integer in *)
(* units of 1/10000, so 1.0 is One = 10000 and 0.15 is 1500.  All scores   *)
(* the model draws are multiples of 1/100, which keeps the products of the *)
(* weighted strategy exact.  Amounts are whole dollars.                    *)
(***************************************************************************)
EXTENDS Integers, Sequences, FiniteSets, TLC

None == "None"

One == 10000

Min(a, b) == IF a <= b THEN a ELSE b
Max(a, b) == IF a >= b THEN a ELSE b

(***************************************************************************)
(* Transactions (TransactionRequest): amount > 0, payment method, country, *)
(* hour of the timestamp, device id (None, the empty string, or an id).    *)
(***************************************************************************)
Amounts == {49, 50, 999, 1000, 2000, 2001, 4999, 5000, 5001}
PaymentMethods == {"credit_card", "bank_transfer", "paypal"}
Countries == {"US", "NG", "RU"}
Hours == {0, 5, 6, 22, 23}
DeviceIds == {None, "", "DEVICE-ABC123"}

Transactions ==
    [amount : Amounts, payment_method : PaymentMethods, country : Countries,
     hour : Hours, device_id : DeviceIds]

(***************************************************************************)
(* FraudDetector: the rule evaluator.                                      *)
(***************************************************************************)
HIGH_AMOUNT_THRESHOLD == 1000
VERY_HIGH_AMOUNT_THRESHOLD == 5000
SUSPICIOUS_COUNTRIES == {"NG", "RU", "CN", "BR"}
NIGHT_HOUR_START == 23
NIGHT_HOUR_END == 5

\* Each check returns <<score delta, flag>>; the flag "" means none.

\* An amount check whose upper tier is lost.
check_amount_high_only(amount) ==
    IF amount >= HIGH_AMOUNT_THRESHOLD /\ amount < VERY_HIGH_AMOUNT_THRESHOLD
    THEN <<2000, "high_amount">>
    ELSE <<0, "">>

check_amount(amount) ==
    IF amount >= VERY_HIGH_AMOUNT_THRESHOLD THEN <<4000, "very_high_amount">>
    ELSE IF amount >= HIGH_AMOUNT_THRESHOLD THEN <<2000, "high_amount">>
    ELSE <<0, "">>

check_location(country) ==
    IF country \in SUSPICIOUS_COUNTRIES THEN <<3000, "high_risk_country">>
    ELSE <<0, "">>

\* A night window that leaves out its last hour.
check_timing_strict(hour) ==
    IF hour >= NIGHT_HOUR_START \/ hour < NIGHT_HOUR_END
    THEN <<1500, "unusual_hours">>
    ELSE <<0, "">>

check_timing(hour) ==
    IF hour >= NIGHT_HOUR_START \/ hour <= NIGHT_HOUR_END
    THEN <<1500, "unusual_hours">>
    ELSE <<0, "">>

check_payment_method(payment_method, amount) ==
    IF payment_method = "credit_card" /\ amount > 2000
    THEN <<2000, "high_amount_credit_card">>
    ELSE IF payment_method = "bank_transfer" /\ amount < 50
    THEN <<1000, "unusual_payment_method_for_amount">>
    ELSE <<0, "">>

\* flags.append(flag) under "if flag:".
AppendIf(flags, flag) == IF flag # "" THEN Append(flags, flag) ELSE flags

\* "if not transaction.device_id": None and the empty string are both falsy.
check_device(device_id) ==
    IF device_id = None \/ device_id = ""
    THEN <<1500, "missing_device_info">>
    ELSE <<0, "">>

\* The sum of the deltas before the cap.
rule_raw_score(t) ==
    check_amount(t.amount)[1] + check_location(t.country)[1]
    + check_timing(t.hour)[1]
    + check_payment_method(t.payment_method, t.amount)[1]
    + check_device(t.device_id)[1]

\* The evaluator without its final cap.
rule_final_score_uncapped(score) == score

rule_final_score(score) == Min(score, One)

\* FraudDetector.predict: [score, flags].
FraudDetector_predict(t) ==
    [score |-> rule_final_score(rule_raw_score(t)),
     flags |-> AppendIf(AppendIf(AppendIf(AppendIf(AppendIf(<<>>,
                   check_amount(t.amount)[2]),
                   check_location(t.country)[2]),
                   check_timing(t.hour)[2]),
                   check_payment_method(t.payment_method, t.amount)[2]),
                   check_device(t.device_id)[2])]

(***************************************************************************)
(* JSON values as the model's decoder (json.loads) produces them.          *)
(*                                                                         *)
(* A field value is [type, b, n, s, items, ordered, elems, raw]: type is   *)
(* the Python type ("bool", "num", "str", "list", "dict", "null"), or      *)
(* "absent" for a key the object does not have.  A list holds item names;  *)
(* the item "#dict" stands for a nested object (unhashable), every other   *)
(* item is a string.  A list built by list(set(...)) has no defined order: *)
(* it is held as its set of elements (ordered = FALSE).  raw holds the     *)
(* tokens of a string cut from the raw response text.                      *)
(***************************************************************************)
FV(type, b, n, s, items) ==
    [type |-> type, b |-> b, n |-> n, s |-> s, items |-> items,
     ordered |-> TRUE, elems |-> {}, raw |-> <<>>]

JAbsent == FV("absent", FALSE, 0, "", <<>>)
JNull == FV("null", FALSE, 0, "", <<>>)
JBool(b) == FV("bool", b, 0, "", <<>>)
JNum(n) == FV("num", FALSE, n, "", <<>>)
JStr(s) == FV("str", FALSE, 0, s, <<>>)
JList(items) == FV("list", FALSE, 0, "", items)
JDict == FV("dict", FALSE, 0, "", <<>>)
JRaw(tokens) == [JStr("") EXCEPT !.raw = tokens]
JUnordered(elems) == [JList(<<>>) EXCEPT !.ordered = FALSE, !.elems = elems]

Range(seq) == {seq[i] : i \in 1..Len(seq)}
Elems(v) == IF v.ordered THEN Range(v.items) ELSE v.elems
ItemHashable(i) == i # "#dict"

\* A decoded top-level value: [type, b, n, s, items, extra, fields].  For an
\* object, fields maps the four keys of the analysis to their values and
\* extra says whether the object has other keys as well.
NoFields ==
    [is_fraud |-> JAbsent, confidence |-> JAbsent, reasoning |-> JAbsent,
     risk_factors |-> JAbsent]

TV(type, b, n, s, items, extra, fields) ==
    [type |-> type, b |-> b, n |-> n, s |-> s, items |-> items,
     extra |-> extra, fields |-> fields]

TObject(is_fraud, confidence, reasoning, risk_factors) ==
    TV("dict", FALSE, 0, "", <<>>, FALSE,
       [is_fraud |-> is_fraud, confidence |-> confidence,
        reasoning |-> reasoning, risk_factors |-> risk_factors])
TOther == TV("dict", FALSE, 0, "", <<>>, TRUE, NoFields)
TEmpty == TV("dict", FALSE, 0, "", <<>>, FALSE, NoFields)
TNum(n) == TV("num", FALSE, n, "", <<>>, FALSE, NoFields)
TBool(b) == TV("bool", b, 0, "", <<>>, FALSE, NoFields)
TNull == TV("null", FALSE, 0, "", <<>>, FALSE, NoFields)
TStr(s) == TV("str", FALSE, 0, s, <<>>, FALSE, NoFields)
TList(items) == TV("list", FALSE, 0, "", items, FALSE, NoFields)

FieldNames == {"is_fraud", "confidence", "reasoning", "risk_factors"}

\* Python truthiness of a decoded value ("if parsed:").
Truthy(v) ==
    CASE v.type = "dict" -> v.extra \/ \E f \in FieldNames : v.fields[f].type # "absent"
      [] v.type = "num" -> v.n # 0
      [] v.type = "bool" -> v.b
      [] v.type = "null" -> FALSE
      [] v.type = "str" -> v.s # ""
      [] v.type = "list" -> v.items # <<>>

(***************************************************************************)
(* Raw response text: a sequence of tokens.  A token is a stretch of       *)
(* prose, the fence opener ```json, a bare fence ```, a stray brace, or    *)
(* the serialisation of one JSON value.  json.loads succeeds on a stretch  *)
(* of text exactly when the stretch is one JSON token.                     *)
(***************************************************************************)
Tok(k, w, v) == [k |-> k, w |-> w, v |-> v]
Prose(w) == Tok("prose", w, TNull)
FenceJson == Tok("fence_json", "", TNull)
Fence == Tok("fence", "", TNull)
LBrace == Tok("lbrace", "", TNull)
RBrace == Tok("rbrace", "", TNull)
Json(v) == Tok("json", "", v)

\* json.loads: [ok, v]; not ok is json.JSONDecodeError. One JSON token decodes
\* to its value and the two braces alone to the empty object.
json_loads(text) ==
    IF Len(text) = 1 /\ text[1].k = "json"
    THEN [ok |-> TRUE, v |-> text[1].v]
    ELSE IF text = <<LBrace, RBrace>>
    THEN [ok |-> TRUE, v |-> TEmpty]
    ELSE [ok |-> FALSE, v |-> TNull]

\* The token holds the character "{" / "}".
HasOpenBrace(tok) == tok.k = "lbrace" \/ (tok.k = "json" /\ tok.v.type = "dict")
HasCloseBrace(tok) == tok.k = "rbrace" \/ (tok.k = "json" /\ tok.v.type = "dict")
\* The token holds the characters "```" ("```json" does).
HasFence(tok) == tok.k \in {"fence", "fence_json"}

MinOf(S) == CHOOSE x \in S : \A y \in S : x <= y
MaxOf(S) == CHOOSE x \in S : \A y \in S : x >= y

\* Second attempt of parse_json_response: the contents of a ```json block.
parse_fenced(text) ==
    LET opens == {i \in 1..Len(text) : text[i].k = "fence_json"} IN
    IF opens = {} THEN [ok |-> FALSE, v |-> TNull]
    ELSE LET start == MinOf(opens) + 1
             closes == {i \in 1..Len(text) : HasFence(text[i]) /\ i >= start}
         IN IF closes = {} THEN [ok |-> FALSE, v |-> TNull]
            ELSE json_loads(SubSeq(text, start, MinOf(closes) - 1))

\* Third attempt: from the first "{" to the last "}".
parse_braces(text) ==
    LET opens == {i \in 1..Len(text) : HasOpenBrace(text[i])}
        closes == {i \in 1..Len(text) : HasCloseBrace(text[i])}
    IN IF opens = {} \/ closes = {} THEN [ok |-> FALSE, v |-> TNull]
       ELSE json_loads(SubSeq(text, MinOf(opens), MaxOf(closes)))

\* OllamaClient.parse_json_response: the decoded value, TNull for None.
parse_json_response(response_text) ==
    IF json_loads(response_text).ok THEN json_loads(response_text).v
    ELSE IF parse_fenced(response_text).ok THEN parse_fenced(response_text).v
    ELSE IF parse_braces(response_text).ok THEN parse_braces(response_text).v
    ELSE TNull

(***************************************************************************)
(* LLMFraudDetector: validation, keyword fallback, predict.                *)
(***************************************************************************)
fraud_keywords == {"fraud", "suspicious", "risky", "high risk", "account takeover"}
safe_keywords == {"legitimate", "normal", "safe", "low risk"}

\* str.lower() on the string literals of the model.
Lower(s) ==
    CASE s = "FRAUD detected: Suspicious and risky" -> "fraud detected: suspicious and risky"
      [] s = "Looks LEGITIMATE and safe" -> "looks legitimate and safe"
      [] OTHER -> s

\* "kw in s" for the keywords and the (lower-cased) string literals of the model.
SubstringFacts ==
    {<<"fraud", "fraud detected: suspicious and risky">>,
     <<"suspicious", "fraud detected: suspicious and risky">>,
     <<"risky", "fraud detected: suspicious and risky">>,
     <<"legitimate", "looks legitimate and safe">>,
     <<"safe", "looks legitimate and safe">>,
     <<"high risk", "high risk account takeover">>,
     <<"account takeover", "high risk account takeover">>,
     <<"normal", "normal, low risk">>,
     <<"low risk", "normal, low risk">>,
     <<"risky", "risky_payment_method">>,
     <<"fraud", "is_fraud">>,
     <<"fraud", "is_fraud confidence reasoning">>,
     <<"is_fraud", "is_fraud confidence reasoning">>,
     <<"confidence", "is_fraud confidence reasoning">>,
     <<"reasoning", "is_fraud confidence reasoning">>}
IsSubstring(kw, s) == kw = s \/ <<kw, s>> \in SubstringFacts

\* The serialisation of a field value holds kw.
FieldHolds(kw, fv) ==
    \/ fv.type = "str" /\ IsSubstring(kw, Lower(fv.s))
    \/ fv.type = "list" /\ \E i \in 1..Len(fv.items) : IsSubstring(kw, Lower(fv.items[i]))

\* "kw in text_lower", token by token (no keyword straddles two tokens).
TokenHolds(kw, tok) ==
    \/ tok.k = "prose" /\ IsSubstring(kw, Lower(tok.w))
    \/ /\ tok.k = "json"
       /\ \/ tok.v.type = "str" /\ IsSubstring(kw, Lower(tok.v.s))
          \/ tok.v.type = "list"
             /\ \E i \in 1..Len(tok.v.items) : IsSubstring(kw, Lower(tok.v.items[i]))
          \/ /\ tok.v.type = "dict"
             /\ \E f \in FieldNames :
                    /\ tok.v.fields[f].type # "absent"
                    /\ IsSubstring(kw, f) \/ FieldHolds(kw, tok.v.fields[f])
TextHolds(kw, text) == \E i \in 1..Len(text) : TokenHolds(kw, text[i])

fraud_count(text) == Cardinality({kw \in fraud_keywords : TextHolds(kw, text)})
safe_count(text) == Cardinality({kw \in safe_keywords : TextHolds(kw, text)})

\* Characters of a token, for response_text[:200].
TokenLen(tok) ==
    CASE tok.k = "prose" -> 40
      [] tok.k = "fence_json" -> 7
      [] tok.k = "fence" -> 3
      [] tok.k \in {"lbrace", "rbrace"} -> 1
      [] tok.k = "json" -> IF tok.v.type = "dict" THEN 90 ELSE 10
REASONING_CHARS == 200

RECURSIVE TextLen(_)
TextLen(text) == IF text = <<>> THEN 0 ELSE TokenLen(Head(text)) + TextLen(Tail(text))

\* response_text[:200]: the whole tokens that fit, then a "cut" token for the
\* part of the next token that fits.
RECURSIVE Prefix(_, _)
Prefix(text, chars) ==
    IF text = <<>> \/ chars <= 0 THEN <<>>
    ELSE IF TokenLen(Head(text)) <= chars
         THEN <<Head(text)>> \o Prefix(Tail(text), chars - TokenLen(Head(text)))
         ELSE <<Tok("cut", Head(text).w, TNull)>>

\* LLMFraudDetector._fallback_parse: the analysis dict.
fallback_confidence(is_fraud, fc, sc) ==
    IF is_fraud THEN Min(5000 + fc * 1000, 9000) ELSE Max(5000 - sc * 1000, 1000)

\* A fallback that counts a tie as fraud.
fallback_parse_tie_fraud(response_text) ==
    LET fc == fraud_count(response_text)
        sc == safe_count(response_text)
        is_fraud == fc >= sc
    IN TObject(JBool(is_fraud), JNum(fallback_confidence(is_fraud, fc, sc)),
               JRaw(Prefix(response_text, REASONING_CHARS)),
               JList(<<"fallback_parse_used">>))

fallback_parse(response_text) ==
    LET fc == fraud_count(response_text)
        sc == safe_count(response_text)
        is_fraud == fc > sc
    IN TObject(JBool(is_fraud), JNum(fallback_confidence(is_fraud, fc, sc)),
               JRaw(Prefix(response_text, REASONING_CHARS)),
               JList(<<"fallback_parse_used">>))

\* "field in analysis" for a decoded value; "TypeError" when the value is
\* not a container (int, float, bool).
HasField(analysis, f) ==
    CASE analysis.type = "dict" -> IF analysis.fields[f].type # "absent" THEN "True" ELSE "False"
      [] analysis.type = "str" -> IF IsSubstring(f, analysis.s) THEN "True" ELSE "False"
      [] analysis.type = "list" -> IF f \in Range(analysis.items) THEN "True" ELSE "False"
      [] OTHER -> "TypeError"

required_fields == <<"is_fraud", "confidence", "reasoning">>

\* float(confidence) of a number or a bool.
NumValue(fv) == IF fv.type = "bool" THEN (IF fv.b THEN One ELSE 0) ELSE fv.n

\* LLMFraudDetector._validate_analysis: "True", "False" or "TypeError".
validate_analysis(analysis) ==
    IF \E i \in 1..3 : HasField(analysis, required_fields[i]) = "TypeError" THEN "TypeError"
    ELSE IF \E i \in 1..3 : HasField(analysis, required_fields[i]) = "False" THEN "False"
    ELSE IF analysis.type # "dict" THEN "TypeError"   \* analysis["is_fraud"] on a str or list
    ELSE IF analysis.fields.is_fraud.type # "bool" THEN "False"
    ELSE IF analysis.fields.confidence.type \notin {"num", "bool"} THEN "False"
    ELSE IF ~(0 <= NumValue(analysis.fields.confidence)
              /\ NumValue(analysis.fields.confidence) <= One) THEN "False"
    ELSE "True"

\* LLMFraudDetector._parse_response: [exc, analysis].
parse_response(response_text) ==
    LET parsed == parse_json_response(response_text) IN
    IF Truthy(parsed) /\ validate_analysis(parsed) = "TypeError"
    THEN [exc |-> "TypeError", analysis |-> TNull]
    ELSE IF Truthy(parsed) /\ validate_analysis(parsed) = "True"
    THEN [exc |-> None, analysis |-> parsed]
    ELSE [exc |-> None, analysis |-> fallback_parse(response_text)]

(***************************************************************************)
(* Settings (read-only after start-up), loaded from the environment.       *)
(***************************************************************************)
DefaultSettings ==
    [use_llm |-> TRUE, llm_weight |-> 6000, rules_weight |-> 4000,
     fraud_threshold |-> 5000, high_risk_threshold |-> 7500]

\* The defaults, the model path disabled, weights that do not sum to 1.0
\* (nothing enforces the sum), other weights and other thresholds.
SettingsSet ==
    {DefaultSettings,
     [DefaultSettings EXCEPT !.use_llm = FALSE],
     [DefaultSettings EXCEPT !.llm_weight = 9000],
     [DefaultSettings EXCEPT !.llm_weight = 3000, !.rules_weight = 7000],
     [DefaultSettings EXCEPT !.fraud_threshold = 3000, !.high_risk_threshold = 9000]}

VARIABLES
    settings,      \* the Settings singleton
    pc,            \* where the call in progress stands
    transaction,   \* the transaction being scored
    strategy,      \* the strategy of the request
    outcome,       \* what the reasoning-model endpoint did with the request
    rule_result,   \* FraudDetector.predict's return value
    llm_result,    \* LLMFraudDetector.predict's return value
    result,        \* EnsembleFraudDetector.predict's return value, or its exception
    response,      \* the route's HTTP response
    log,           \* the calls made while scoring: rule evaluator, detector, model request
    calls,         \* the local variables of each of several concurrent scoring calls
    prompt         \* what building the detector's prompt gave: the prompt or an exception

vars == <<settings, pc, transaction, strategy, outcome, rule_result, llm_result,
          result, response, log, calls, prompt>>

(***************************************************************************)
(* OllamaClient.generate, by what the endpoint did.                        *)
(***************************************************************************)
\*   timeout            httpx.TimeoutException
\*   http_error         httpx.HTTPError (connection failure, 4xx, 5xx)
\*   json_decode_error  the response body is not JSON
\*   envelope_not_dict  the body is JSON but no object (result.get fails)
\*   response_not_str   the envelope's "response" is no string
\*   text               the envelope's "response" is the text
OutcomeKinds ==
    {"timeout", "http_error", "json_decode_error", "envelope_not_dict",
     "response_not_str", "text"}
Outcome(kind, text) == [kind |-> kind, text |-> text]
NoOutcome == Outcome("none", <<>>)

\* [exc, is_str, response]
OllamaClient_generate(o) ==
    CASE o.kind = "timeout" ->
            [exc |-> "Exception: LLM request timed out", is_str |-> FALSE, response |-> <<>>]
      [] o.kind = "http_error" ->
            [exc |-> "Exception: LLM HTTP error", is_str |-> FALSE, response |-> <<>>]
      [] o.kind = "json_decode_error" ->
            [exc |-> "Exception: Invalid JSON response from LLM", is_str |-> FALSE, response |-> <<>>]
      [] o.kind = "envelope_not_dict" ->
            [exc |-> "AttributeError", is_str |-> FALSE, response |-> <<>>]
      [] o.kind = "response_not_str" ->
            [exc |-> None, is_str |-> FALSE, response |-> <<>>]
      [] o.kind = "text" ->
            [exc |-> None, is_str |-> TRUE, response |-> o.text]

(***************************************************************************)
(* FraudPromptBuilder.build_analysis_prompt: the prompt carries the rule   *)
(* section when a rule score or a non-empty flag list was passed; rendering*)
(* the section formats rule_score with ".2f", a TypeError on None.         *)
(***************************************************************************)
NoScore == -1

build_analysis_prompt(t, rule_score, rule_flags) ==
    LET section == rule_score # NoScore
                   \/ (rule_flags.type = "list" /\ rule_flags.items # <<>>)
    IN [exc |-> IF section /\ rule_score = NoScore THEN "TypeError" ELSE None,
        rule_section |-> section]

\* No prompt was asked for yet.
NoPrompt == [exc |-> None, rule_section |-> FALSE]

\* LLMFraudDetector.predict's return value [score, factors, reasoning]; exc
\* names an exception that leaves predict instead (None: predict returned).
LLMResult(score, factors, reasoning) ==
    [exc |-> None, score |-> score, factors |-> factors, reasoning |-> reasoning]
NoLLMResult == LLMResult(NoScore, JList(<<>>), JStr(""))

\* An except clause that lets the exception go on to the caller.
llm_error_reraised(exc) ==
    [exc |-> exc, score |-> NoScore, factors |-> JList(<<>>), reasoning |-> JStr("")]

\* The except clause of predict: every exception of the try block ends here.
llm_error_result(exc) ==
    LLMResult(5000, JList(<<"llm_error">>), JStr("Error during LLM analysis: " \o exc))

llm_parse_error_result ==
    LLMResult(5000, JList(<<"llm_parse_error">>), JStr("LLM response could not be parsed"))

\* A STEP 4 that turns the confidence of a "not fraud" verdict around.
extract_analysis_signed(analysis) ==
    LET risk_factors == IF analysis.fields.risk_factors.type = "absent"
                        THEN JList(<<>>) ELSE analysis.fields.risk_factors
        reasoning == IF analysis.fields.reasoning.type = "absent"
                     THEN JStr("No explanation provided") ELSE analysis.fields.reasoning
        confidence == IF analysis.fields.confidence.type = "absent"
                      THEN JNum(5000) ELSE analysis.fields.confidence
    IN IF risk_factors.type \notin {"list", "str", "dict"}
       THEN llm_error_result("TypeError")
       ELSE LLMResult(IF analysis.fields.is_fraud = JBool(FALSE)
                      THEN One - NumValue(confidence) ELSE NumValue(confidence),
                      risk_factors, reasoning)

\* STEP 4 of predict, on the analysis dict.
extract_analysis(analysis) ==
    LET risk_factors == IF analysis.fields.risk_factors.type = "absent"
                        THEN JList(<<>>) ELSE analysis.fields.risk_factors
        reasoning == IF analysis.fields.reasoning.type = "absent"
                     THEN JStr("No explanation provided") ELSE analysis.fields.reasoning
        confidence == IF analysis.fields.confidence.type = "absent"
                      THEN JNum(5000) ELSE analysis.fields.confidence
    IN IF risk_factors.type \notin {"list", "str", "dict"}
       THEN llm_error_result("TypeError")     \* len(risk_factors) in the log line
       ELSE LLMResult(NumValue(confidence), risk_factors, reasoning)

LLMFraudDetector_predict(t, rule_score, rule_flags, o) ==
    LET built == build_analysis_prompt(t, rule_score, rule_flags)
        gen == OllamaClient_generate(o)
        parsed == parse_response(gen.response)
    IN IF built.exc # None THEN llm_error_result(built.exc)
       ELSE IF gen.exc # None THEN llm_error_result(gen.exc)
       ELSE IF ~gen.is_str THEN llm_error_result("TypeError")
       ELSE IF parsed.exc # None THEN llm_error_result(parsed.exc)
       ELSE IF ~Truthy(parsed.analysis) THEN llm_parse_error_result
       ELSE extract_analysis(parsed.analysis)

(***************************************************************************)
(* EnsembleFraudDetector: the detector call, the three merges and the risk *)
(* level.                                                                  *)
(***************************************************************************)
\* self.llm_detector.predict(...) seen from the call site: besides what the
\* endpoint did, the call itself may end in an exception that the detector's
\* own except clause did not turn into a return value (an error raised while
\* that clause runs, or a detector object that was replaced).
DetectorError == Outcome("detector_error", <<>>)
DetectorRaised(exc) ==
    [exc |-> exc, score |-> NoScore, factors |-> JList(<<>>), reasoning |-> JStr("")]

invoke_detector(t, rule_score, rule_flags, o) ==
    IF o = DetectorError THEN DetectorRaised("RuntimeError")
    ELSE LLMFraudDetector_predict(t, rule_score, rule_flags, o)

\* OllamaClient.generate posts once, whatever comes back.
post_attempts_retry(o) == IF o.kind \in {"timeout", "http_error"} THEN 2 ELSE 1

post_attempts(o) == 1

\* What one call of LLMFraudDetector.predict does, in order: the call, and
\* the requests of generate unless building the prompt already failed.
detector_events(t, rule_score, rule_flags, o) ==
    <<"detector">>
    \o (IF build_analysis_prompt(t, rule_score, rule_flags).exc # None
        THEN <<>>
        ELSE [i \in 1..post_attempts(o) |-> "request"])

\* An except clause of STEP 2 that leaves the model score unset.
llm_score_on_error_unset(rule_score) == NoScore

\* The except clause of STEP 2: llm_score = rule_score.
llm_score_on_error(rule_score) == rule_score

\* a * w for a score and a weight, both in units of 1/10000.
Mul(a, w) == (a * w) \div One

Explanation(msg, rule, llm, reasoning) ==
    [msg |-> msg, rule |-> rule, llm |-> llm, reasoning |-> reasoning]
Plain(msg) == Explanation(msg, NoScore, NoScore, JStr(""))

\* A return value or a raised exception of EnsembleFraudDetector.predict.
Returned(score, flags, explanation) ==
    [exc |-> None, score |-> score, flags |-> flags, explanation |-> explanation]
Raised(exc) ==
    [exc |-> exc, score |-> NoScore, flags |-> JList(<<>>), explanation |-> Plain("")]
NoResult == Raised("none")

\* list(set(rule_flags + llm_factors)): list + non-list and an unhashable
\* element are TypeErrors.
combine_flags(rule_flags, llm_factors) ==
    IF llm_factors.type # "list" THEN [exc |-> "TypeError", flags |-> JList(<<>>)]
    ELSE IF \E i \in 1..Len(llm_factors.items) : ~ItemHashable(llm_factors.items[i])
    THEN [exc |-> "TypeError", flags |-> JList(<<>>)]
    ELSE [exc |-> None,
          flags |-> JUnordered(Range(rule_flags.items) \cup Range(llm_factors.items))]

\* The weights applied to the wrong scores.
weighted_score_swapped(rule_score, llm_score) ==
    Mul(rule_score, settings.llm_weight) + Mul(llm_score, settings.rules_weight)

weighted_score(rule_score, llm_score) ==
    Mul(rule_score, settings.rules_weight) + Mul(llm_score, settings.llm_weight)

\* A weighted merge that counts a missing model score as zero.
weighted_none_as_zero(rule_score, rule_flags, llm_score, llm_factors, llm_reasoning) ==
    IF combine_flags(rule_flags, llm_factors).exc # None
    THEN Raised(combine_flags(rule_flags, llm_factors).exc)
    ELSE Returned(weighted_score(rule_score, Max(llm_score, 0)),
                  combine_flags(rule_flags, llm_factors).flags,
                  Explanation("Ensemble analysis", rule_score, llm_score, llm_reasoning))

weighted_combination(rule_score, rule_flags, llm_score, llm_factors, llm_reasoning) ==
    IF llm_score = NoScore
    THEN Returned(rule_score, rule_flags, Plain("Rule-based detection only"))
    ELSE IF combine_flags(rule_flags, llm_factors).exc # None
    THEN Raised(combine_flags(rule_flags, llm_factors).exc)
    ELSE Returned(weighted_score(rule_score, llm_score),
                  combine_flags(rule_flags, llm_factors).flags,
                  Explanation("Ensemble analysis", rule_score, llm_score, llm_reasoning))

HIGH_CONFIDENCE_THRESHOLD == 8000
LOW_CONFIDENCE_THRESHOLD == 2000

\* A cascade that consults the model whatever the rule score.
cascade_always_llm(rule_score, rule_flags, llm_score, llm_factors, llm_reasoning) ==
    IF llm_score = NoScore
    THEN Returned(rule_score, rule_flags, Plain("Uncertain, LLM unavailable"))
    ELSE Returned(llm_score, llm_factors,
                  Explanation("Uncertain rules, LLM analysis", NoScore, NoScore, llm_reasoning))

\* A cascade that never hands the decision to the model.
cascade_never_llm(rule_score, rule_flags, llm_score, llm_factors, llm_reasoning) ==
    IF rule_score >= HIGH_CONFIDENCE_THRESHOLD
    THEN Returned(rule_score, rule_flags, Plain("High-confidence rule-based detection"))
    ELSE IF rule_score <= LOW_CONFIDENCE_THRESHOLD
    THEN Returned(rule_score, rule_flags, Plain("High-confidence legitimate transaction"))
    ELSE Returned(rule_score, rule_flags, Plain("Uncertain, LLM unavailable"))

cascade_combination(rule_score, rule_flags, llm_score, llm_factors, llm_reasoning) ==
    IF rule_score >= HIGH_CONFIDENCE_THRESHOLD
    THEN Returned(rule_score, rule_flags, Plain("High-confidence rule-based detection"))
    ELSE IF rule_score <= LOW_CONFIDENCE_THRESHOLD
    THEN Returned(rule_score, rule_flags, Plain("High-confidence legitimate transaction"))
    ELSE IF llm_score = NoScore
    THEN Returned(rule_score, rule_flags, Plain("Uncertain, LLM unavailable"))
    ELSE Returned(llm_score, llm_factors,
                  Explanation("Uncertain rules, LLM analysis", NoScore, NoScore, llm_reasoning))

\* A max merge whose ties go to the model.
max_combination_tie_llm(rule_score, rule_flags, llm_score, llm_factors, llm_reasoning) ==
    IF llm_score = NoScore
    THEN Returned(rule_score, rule_flags, Plain("Rule-based detection only"))
    ELSE IF llm_score >= rule_score
    THEN Returned(llm_score, llm_factors,
                  Explanation("LLM detected higher risk", NoScore, NoScore, llm_reasoning))
    ELSE Returned(rule_score, rule_flags, Plain("Rule-based detected higher risk"))

max_combination(rule_score, rule_flags, llm_score, llm_factors, llm_reasoning) ==
    IF llm_score = NoScore
    THEN Returned(rule_score, rule_flags, Plain("Rule-based detection only"))
    ELSE IF llm_score > rule_score
    THEN Returned(llm_score, llm_factors,
                  Explanation("LLM detected higher risk", NoScore, NoScore, llm_reasoning))
    ELSE Returned(rule_score, rule_flags, Plain("Rule-based detected higher risk"))

MEDIUM_THRESHOLD == 2500

\* The rule evaluator's own level mapping, which ignores the settings.
get_risk_level_fixed(fraud_score) ==
    IF fraud_score >= 7500 THEN "critical"
    ELSE IF fraud_score >= 5000 THEN "high"
    ELSE IF fraud_score >= 2500 THEN "medium"
    ELSE "low"

get_risk_level(fraud_score) ==
    IF fraud_score >= settings.high_risk_threshold THEN "critical"
    ELSE IF fraud_score >= settings.fraud_threshold THEN "high"
    ELSE IF fraud_score >= MEDIUM_THRESHOLD THEN "medium"
    ELSE "low"

\* A rules_only explanation that never lists the flags.
rules_only_explanation_fixed(rule_flags) == Plain("No red flags detected")

\* The explanation of rules_only: the flags joined, or the fixed string.
rules_only_explanation(rule_flags) ==
    IF rule_flags # <<>>
    THEN Explanation("Rule-based detection", NoScore, NoScore, JList(rule_flags))
    ELSE Plain("No red flags detected")

\* STEP 3 of predict: the merge the strategy selects.
combine(strat, rule_score, rule_flags, llm_score, llm_factors, llm_reasoning) ==
    CASE strat = "weighted" ->
            weighted_combination(rule_score, rule_flags, llm_score, llm_factors, llm_reasoning)
      [] strat = "cascade" ->
            cascade_combination(rule_score, rule_flags, llm_score, llm_factors, llm_reasoning)
      [] strat = "max" ->
            max_combination(rule_score, rule_flags, llm_score, llm_factors, llm_reasoning)
      [] OTHER ->
            weighted_combination(rule_score, rule_flags, llm_score, llm_factors, llm_reasoning)

(***************************************************************************)
(* Inputs: requests and what the endpoint answers.                         *)
(***************************************************************************)
KnownStrategies == {"weighted", "cascade", "max", "llm_only", "rules_only"}
Strategies == KnownStrategies \cup {"voting"}

\* Transactions of the scoring calls: every combination of triggered checks
\* occurs among them.
RequestTransactions ==
    [amount : {49, 1000, 2001, 5000}, payment_method : {"credit_card", "bank_transfer"},
     country : {"US", "NG"}, hour : {5, 6}, device_id : {None, "DEVICE-ABC123"}]

\* Field values the model may send, and the objects built from them: the
\* well-formed object and the objects that differ from it in one field.
GoodFactors == JList(<<"high_amount", "velocity_anomaly">>)
IsFraudValues == {JBool(TRUE), JBool(FALSE), JStr("yes"), JAbsent}
ConfidenceValues ==
    {JNum(8000), JNum(2000), JNum(0), JNum(One), JNum(15000), JNum(-100),
     JBool(TRUE), JStr("0.9"), JAbsent}
ReasoningValues == {JStr("x"), JNum(7), JAbsent}
RiskFactorValues ==
    {GoodFactors, JList(<<>>), JList(<<"risky_payment_method">>), JList(<<"#dict">>),
     JList(<<"high_amount", "high_amount">>), JStr("abc"), JDict, JNum(5), JNull, JAbsent}

ObjectBodies ==
    {TObject(i, JNum(8000), JStr("x"), GoodFactors) : i \in IsFraudValues}
    \cup {TObject(JBool(TRUE), c, JStr("x"), GoodFactors) : c \in ConfidenceValues}
    \cup {TObject(JBool(TRUE), JNum(8000), r, GoodFactors) : r \in ReasoningValues}
    \cup {TObject(JBool(TRUE), JNum(8000), JStr("x"), f) : f \in RiskFactorValues}
    \cup {TOther, TEmpty}

ScalarBodies ==
    {TNum(42), TNum(0), TBool(TRUE), TBool(FALSE), TNull, TStr("hello"),
     TStr("is_fraud confidence reasoning"), TList(<<"a">>), TList(<<>>),
     TList(<<"is_fraud", "confidence", "reasoning">>)}

Bodies == ObjectBodies \cup ScalarBodies

ProseTokens ==
    {Prose("FRAUD detected: Suspicious and risky"), Prose("Looks LEGITIMATE and safe"),
     Prose("I cannot help with that")}

\* Texts of the scoring calls: no text, prose, and each body bare.
RequestTexts ==
    {<<>>} \cup {<<p>> : p \in ProseTokens} \cup {<<Json(v)>> : v \in Bodies}

Failures == {Outcome(k, <<>>) : k \in OutcomeKinds \ {"text"}}
RequestOutcomes ==
    Failures \cup {Outcome("text", text) : text \in RequestTexts} \cup {DetectorError}

(***************************************************************************)
(* The state machine: one scoring call through the /predict route or a     *)
(* direct call of EnsembleFraudDetector.predict.                           *)
(***************************************************************************)
NoTransaction ==
    [amount |-> 0, payment_method |-> "", country |-> "", hour |-> 0, device_id |-> None]
NoRuleResult == [score |-> NoScore, flags |-> <<>>]
NoResponse ==
    [status |-> 0, fraud_score |-> NoScore, is_fraud |-> FALSE, risk_level |-> "",
     flags |-> JList(<<>>), detection_method |-> ""]

\* The local variables of one scoring call that runs beside others.
NumCalls == 2
CallIds == 1..NumCalls
NoCall ==
    [pc |-> "idle", transaction |-> NoTransaction, strategy |-> "", outcome |-> NoOutcome,
     rule_result |-> NoRuleResult, llm_result |-> NoLLMResult, result |-> NoResult]
NoCalls == [i \in CallIds |-> NoCall]

Init ==
    /\ settings \in SettingsSet
    /\ pc = "idle"
    /\ transaction = NoTransaction
    /\ strategy = ""
    /\ outcome = NoOutcome
    /\ rule_result = NoRuleResult
    /\ llm_result = NoLLMResult
    /\ result = NoResult
    /\ response = NoResponse
    /\ log = <<>>
    /\ calls = NoCalls
    /\ prompt = NoPrompt

\* POST /predict: FastAPI has validated the transaction; a strategy outside
\* the pattern of the five names is answered 422 and predict_fraud not entered.
ReceiveRequest(t, s) ==
    /\ pc = "idle"
    /\ transaction' = t
    /\ strategy' = s
    /\ IF s \in KnownStrategies
       THEN pc' = "predict" /\ response' = response
       ELSE pc' = "responded" /\ response' = [NoResponse EXCEPT !.status = 422]
    /\ UNCHANGED <<settings, outcome, rule_result, llm_result, result, log, calls, prompt>>

\* EnsembleFraudDetector.predict called by other code than the route, with a
\* strategy the route would not pass.
CallPredict(t, s) ==
    /\ pc = "idle"
    /\ s \notin KnownStrategies
    /\ pc' = "predict"
    /\ transaction' = t
    /\ strategy' = s
    /\ UNCHANGED <<settings, outcome, rule_result, llm_result, result, response,
                   log, calls, prompt>>

\* An llm_only gate that reports the disabled model path as a failed call.
LlmOnlyDisabledAsError ==
    /\ pc = "predict"
    /\ strategy = "llm_only"
    /\ ~settings.use_llm
    /\ result' = Returned(5000, JList(<<"llm_error">>), Plain("LLM is disabled"))
    /\ pc' = "returned"
    /\ UNCHANGED <<settings, transaction, strategy, outcome, rule_result, llm_result,
                   response, log, calls, prompt>>

\* predict, strategy llm_only with the model path disabled.
LlmOnlyDisabled ==
    /\ pc = "predict"
    /\ strategy = "llm_only"
    /\ ~settings.use_llm
    /\ result' = Returned(5000, JList(<<"llm_disabled">>), Plain("LLM is disabled"))
    /\ pc' = "returned"
    /\ UNCHANGED <<settings, transaction, strategy, outcome, rule_result, llm_result,
                   response, log, calls, prompt>>

\* predict, strategy llm_only: the detector's return value is the result.
LlmOnly(o) ==
    /\ pc = "predict"
    /\ strategy = "llm_only"
    /\ settings.use_llm
    /\ outcome' = o
    /\ LET r == invoke_detector(transaction, NoScore, JNull, o) IN
        /\ llm_result' = r
        /\ result' = IF r.exc # None THEN Raised(r.exc)
                     ELSE Returned(r.score, r.factors,
                                   Explanation("", NoScore, NoScore, r.reasoning))
    /\ pc' = IF result'.exc = None THEN "returned" ELSE "raised"
    /\ log' = log \o detector_events(transaction, NoScore, JNull, o)
    /\ prompt' = build_analysis_prompt(transaction, NoScore, JNull)
    /\ UNCHANGED <<settings, transaction, strategy, rule_result, response, calls>>

\* predict, strategy rules_only.
RulesOnly ==
    /\ pc = "predict"
    /\ strategy = "rules_only"
    /\ LET r == FraudDetector_predict(transaction) IN
        /\ rule_result' = r
        /\ result' = Returned(r.score, JList(r.flags), rules_only_explanation(r.flags))
    /\ pc' = "returned"
    /\ log' = Append(log, "rules")
    /\ UNCHANGED <<settings, transaction, strategy, outcome, llm_result, response,
                   calls, prompt>>

\* predict, STEP 1 of every other strategy.
RunRules ==
    /\ pc = "predict"
    /\ strategy \notin {"llm_only", "rules_only"}
    /\ rule_result' = FraudDetector_predict(transaction)
    /\ pc' = IF settings.use_llm THEN "llm" ELSE "combine"
    /\ log' = Append(log, "rules")
    /\ UNCHANGED <<settings, transaction, strategy, outcome, llm_result, result, response,
                   calls, prompt>>

\* predict, STEP 2: the detector, given the rule output; if the call raises,
\* the rule score stands in for the model score.
RunLLM(o) ==
    /\ pc = "llm"
    /\ outcome' = o
    /\ LET r == invoke_detector(transaction, rule_result.score,
                                JList(rule_result.flags), o) IN
        llm_result' = IF r.exc # None
                      THEN LLMResult(llm_score_on_error(rule_result.score),
                                     JList(<<>>), JStr(""))
                      ELSE r
    /\ pc' = "combine"
    /\ log' = log \o detector_events(transaction, rule_result.score,
                                    JList(rule_result.flags), o)
    /\ prompt' = build_analysis_prompt(transaction, rule_result.score,
                                       JList(rule_result.flags))
    /\ UNCHANGED <<settings, transaction, strategy, rule_result, result, response,
                   calls>>

\* predict, STEP 3: the merge; an exception of the merge leaves predict.
Combine ==
    /\ pc = "combine"
    /\ result' = combine(strategy, rule_result.score, JList(rule_result.flags),
                         llm_result.score, llm_result.factors, llm_result.reasoning)
    /\ pc' = IF result'.exc = None THEN "returned" ELSE "raised"
    /\ UNCHANGED <<settings, transaction, strategy, outcome, rule_result, llm_result,
                   response, log, calls, prompt>>

\* FraudPredictionResponse's field constraints (pydantic): fraud_score within
\* [0, 1], flags a list of strings, ai_reasoning a string.
ResponseValid(fraud_score, flags, reasoning) ==
    /\ 0 <= fraud_score /\ fraud_score <= One
    /\ flags.type = "list"
    /\ \A i \in Elems(flags) : ItemHashable(i)
    /\ reasoning.type = "str"

\* predict_fraud after the combiner returned or raised: the risk level and the
\* response, or HTTP 500 from its except clause.
Respond ==
    /\ pc \in {"returned", "raised"}
    /\ strategy \in KnownStrategies
    /\ response' =
         IF pc = "returned"
            /\ ResponseValid(result.score, result.flags,
                             IF result.explanation.msg = ""
                             THEN result.explanation.reasoning ELSE JStr("text"))
         THEN [status |-> 200, fraud_score |-> result.score,
               is_fraud |-> result.score >= 5000,
               risk_level |-> get_risk_level(result.score),
               flags |-> result.flags, detection_method |-> strategy]
         ELSE [NoResponse EXCEPT !.status = 500]
    /\ pc' = "responded"
    /\ UNCHANGED <<settings, transaction, strategy, outcome, rule_result, llm_result,
                   result, log, calls, prompt>>

Next ==
    \/ \E t \in RequestTransactions, s \in Strategies : ReceiveRequest(t, s)
    \/ \E t \in RequestTransactions, s \in Strategies : CallPredict(t, s)
    \/ LlmOnlyDisabled
    \/ \E o \in RequestOutcomes : LlmOnly(o)
    \/ RulesOnly
    \/ RunRules
    \/ \E o \in RequestOutcomes : RunLLM(o)
    \/ Combine
    \/ Respond

Spec == Init /\ [][Next]_vars

(***************************************************************************)
(* The rule evaluator called on its own, over the boundary amounts.        *)
(***************************************************************************)
EvaluateRules(t) ==
    /\ pc = "idle"
    /\ transaction' = t
    /\ rule_result' = FraudDetector_predict(t)
    /\ pc' = "rules_done"
    /\ log' = Append(log, "rules")
    /\ UNCHANGED <<settings, strategy, outcome, llm_result, result, response, calls, prompt>>

NextRules == \E t \in Transactions : EvaluateRules(t)

InitDefault == Init /\ settings = DefaultSettings

SpecRules == InitDefault /\ [][NextRules]_vars

(***************************************************************************)
(* The detector called on its own, over every text of at most MaxTextLen   *)
(* tokens and every body bare, fenced and inside prose.                    *)
(***************************************************************************)
MaxTextLen == 3

\* Prose that holds the remaining keywords, so that a text reaches every
\* count up to all five fraud keywords and all four safe keywords.
KeywordTokens == {Prose("high risk account takeover"), Prose("normal, low risk")}

SeqAlphabet ==
    ProseTokens \cup KeywordTokens \cup {FenceJson, Fence, LBrace, RBrace}
    \cup {Json(TObject(JBool(TRUE), JNum(8000), JStr("x"), GoodFactors)),
          Json(TObject(JBool(TRUE), JAbsent, JStr("x"), GoodFactors)),
          Json(TNum(42))}

BoundedSeq(S, n) == UNION {[1..m -> S] : m \in 0..n}

DetectorTexts ==
    BoundedSeq(SeqAlphabet, MaxTextLen)
    \cup {<<Json(v)>> : v \in Bodies}
    \cup {<<FenceJson, Json(v), Fence>> : v \in Bodies}
    \cup {<<p, Json(v), p>> : p \in ProseTokens, v \in Bodies}

DetectorOutcomes == Failures \cup {Outcome("text", text) : text \in DetectorTexts}

DetectorTransactions ==
    [amount : {5000}, payment_method : {"credit_card"}, country : {"NG"},
     hour : {6}, device_id : {None}]

\* A transaction that triggers no rule, so that the rule flags passed on are
\* an empty list.
PriorTransactions ==
    DetectorTransactions
    \cup [amount : {49}, payment_method : {"credit_card"}, country : {"US"},
          hour : {6}, device_id : {"DEVICE-ABC123"}]

\* predict's optional arguments: neither given, both given, one of them given.
DetectorPriors == {"none", "both", "score", "flags"}
prior_score(t, prior) ==
    IF prior \in {"both", "score"} THEN FraudDetector_predict(t).score ELSE NoScore
prior_flags(t, prior) ==
    IF prior \in {"both", "flags"} THEN JList(FraudDetector_predict(t).flags) ELSE JNull

PriorOutcomes ==
    {Outcome("timeout", <<>>),
     Outcome("text", <<Json(TObject(JBool(TRUE), JNum(8000), JStr("x"), GoodFactors))>>),
     Outcome("text", <<Prose("I cannot help with that")>>)}

\* llm_fraud_detector.predict(transaction, rule_score, rule_flags).
Detect(t, prior, o) ==
    /\ pc = "idle"
    /\ transaction' = t
    /\ outcome' = o
    /\ rule_result' = [score |-> prior_score(t, prior),
                       flags |-> IF prior \in {"both", "flags"}
                                 THEN FraudDetector_predict(t).flags ELSE <<>>]
    /\ prompt' = build_analysis_prompt(t, prior_score(t, prior), prior_flags(t, prior))
    /\ llm_result' = LLMFraudDetector_predict(t, prior_score(t, prior),
                                              prior_flags(t, prior), o)
    /\ pc' = "detected"
    /\ log' = detector_events(t, prior_score(t, prior), prior_flags(t, prior), o)
    /\ UNCHANGED <<settings, strategy, result, response, calls>>

NextDetector ==
    \/ \E t \in DetectorTransactions, p \in {"none", "both"}, o \in DetectorOutcomes :
           Detect(t, p, o)
    \/ \E t \in PriorTransactions, p \in DetectorPriors, o \in PriorOutcomes :
           Detect(t, p, o)

SpecDetector == InitDefault /\ [][NextDetector]_vars


(***************************************************************************)
(* Concurrent scoring calls on the shared detector instances: each call    *)
(* takes the steps of predict on its own local variables, in any           *)
(* interleaving with the steps of the others.                              *)
(***************************************************************************)
ConcurrentTransactions ==
    {[amount |-> 49, payment_method |-> "credit_card", country |-> "NG", hour |-> 6,
      device_id |-> "DEVICE-ABC123"],
     [amount |-> 1000, payment_method |-> "credit_card", country |-> "US", hour |-> 5,
      device_id |-> None]}
ConcurrentStrategies == {"weighted", "cascade", "max", "rules_only"}
ConcurrentOutcomes ==
    {Outcome("timeout", <<>>),
     Outcome("text", <<Json(TObject(JBool(TRUE), JNum(8000), JStr("x"), GoodFactors))>>)}

\* A flag list kept on the shared evaluator instead of in the call.
rule_flags_init_shared(c, i) ==
    IF \E j \in CallIds \ {i} : c[j].rule_result # NoRuleResult
    THEN c[CHOOSE j \in CallIds \ {i} : c[j].rule_result # NoRuleResult].rule_result.flags
    ELSE <<>>

\* FraudDetector.predict starts from its own empty list: flags = [].
rule_flags_init(c, i) == <<>>

\* predict entered by call i.
CallStart(i, t, s) ==
    /\ calls[i].pc = "idle"
    /\ calls' = [calls EXCEPT ![i] = [NoCall EXCEPT !.pc = "predict", !.transaction = t,
                                                   !.strategy = s]]
    /\ UNCHANGED <<settings, pc, transaction, strategy, outcome, rule_result, llm_result,
                   result, response, log, prompt>>

\* The rule evaluator run by call i: the whole of rules_only, STEP 1 otherwise.
CallRules(i) ==
    /\ calls[i].pc = "predict"
    /\ LET c == calls[i]
           r == [score |-> FraudDetector_predict(c.transaction).score,
                 flags |-> rule_flags_init(calls, i)
                           \o FraudDetector_predict(c.transaction).flags]
       IN calls' = [calls EXCEPT ![i] =
            IF c.strategy = "rules_only"
            THEN [c EXCEPT !.rule_result = r,
                           !.result = Returned(r.score, JList(r.flags),
                                               rules_only_explanation(r.flags)),
                           !.pc = "returned"]
            ELSE [c EXCEPT !.rule_result = r,
                           !.pc = IF settings.use_llm THEN "llm" ELSE "combine"]]
    /\ UNCHANGED <<settings, pc, transaction, strategy, outcome, rule_result, llm_result,
                   result, response, log, prompt>>

\* STEP 2 of call i.
CallLLM(i, o) ==
    /\ calls[i].pc = "llm"
    /\ LET c == calls[i]
           r == invoke_detector(c.transaction, c.rule_result.score,
                                JList(c.rule_result.flags), o)
       IN calls' = [calls EXCEPT ![i] =
            [c EXCEPT !.outcome = o,
                      !.llm_result = IF r.exc # None
                                     THEN LLMResult(llm_score_on_error(c.rule_result.score),
                                                    JList(<<>>), JStr(""))
                                     ELSE r,
                      !.pc = "combine"]]
    /\ UNCHANGED <<settings, pc, transaction, strategy, outcome, rule_result, llm_result,
                   result, response, log, prompt>>

\* STEP 3 of call i.
CallCombine(i) ==
    /\ calls[i].pc = "combine"
    /\ LET c == calls[i]
           res == combine(c.strategy, c.rule_result.score, JList(c.rule_result.flags),
                          c.llm_result.score, c.llm_result.factors, c.llm_result.reasoning)
       IN calls' = [calls EXCEPT ![i] =
            [c EXCEPT !.result = res,
                      !.pc = IF res.exc = None THEN "returned" ELSE "raised"]]
    /\ UNCHANGED <<settings, pc, transaction, strategy, outcome, rule_result, llm_result,
                   result, response, log, prompt>>

NextConcurrent ==
    \/ \E i \in CallIds, t \in ConcurrentTransactions, s \in ConcurrentStrategies :
           CallStart(i, t, s)
    \/ \E i \in CallIds : CallRules(i)
    \/ \E i \in CallIds, o \in ConcurrentOutcomes : CallLLM(i, o)
    \/ \E i \in CallIds : CallCombine(i)

SpecConcurrent == InitDefault /\ [][NextConcurrent]_vars

(***************************************************************************)
(* Properties.                                                             *)
(***************************************************************************)

\* C1: whatever the transaction, the strategy and the outcome of the model
\* call (wrongly typed fields of the model's object included), the combiner's
\* predict returns a result: it never ends by raising.
C1_PredictNeverRaises ==
    /\ pc # "raised"
    /\ pc = "returned" => result.exc = None

\* C2: a raw text from which no JSON object can be extracted is answered by
\* the detector with the fallback analysis: a confidence within [0.1, 0.9]
\* and the risk factors [fallback_parse_used], and no exception.
C2_MalformedTextFallsBack ==
    (/\ pc = "detected"
     /\ outcome.kind = "text"
     /\ parse_json_response(outcome.text).type # "dict")
    => /\ llm_result.exc = None
       /\ 1000 <= llm_result.score /\ llm_result.score <= 9000
       /\ llm_result.factors = JList(<<"fallback_parse_used">>)

C4_WeightedFormula ==
    /\ (/\ pc \in {"returned", "responded"}
        /\ result.exc = None
        /\ strategy = "weighted"
        /\ llm_result.score # NoScore)
       => /\ result.score =
                 (rule_result.score * settings.rules_weight) \div One
                 + (llm_result.score * settings.llm_weight) \div One
          /\ Elems(result.flags) = Range(rule_result.flags) \cup Elems(llm_result.factors)
          /\ (/\ settings.rules_weight = 4000 /\ settings.llm_weight = 6000
              /\ rule_result.score = 3000 /\ llm_result.score = 8000)
             => result.score = 6000
    /\ (/\ pc = "responded"
        /\ response.status = 200
        /\ strategy = "weighted"
        /\ response.fraud_score = 6000
        /\ settings.fraud_threshold = 5000 /\ settings.high_risk_threshold = 7500)
       => response.risk_level = "high"

C4_Witness ==
    /\ pc = "responded"
    /\ strategy = "weighted"
    /\ settings = DefaultSettings
    /\ rule_result.score = 3000
    /\ llm_result.score = 8000
    /\ response.fraud_score = 6000
    /\ response.risk_level = "high"
    /\ Range(rule_result.flags) \ Elems(llm_result.factors) # {}
    /\ Elems(llm_result.factors) \ Range(rule_result.flags) # {}

\* C5: under cascade, a rule score of at least 0.8 or at most 0.2 decides: the
\* call returns, and score and flags are those of the rule evaluator on the
\* transaction, whatever the model call produced.
C5_CascadeConfident ==
    (/\ strategy = "cascade"
     /\ pc \in {"returned", "raised", "responded"}
     /\ (rule_result.score >= 8000 \/ rule_result.score <= 2000))
    => /\ pc # "raised"
       /\ result.exc = None
       /\ result.score = FraudDetector_predict(transaction).score
       /\ result.flags = JList(FraudDetector_predict(transaction).flags)

C5_Witness ==
    /\ strategy = "cascade"
    /\ pc = "returned"
    /\ rule_result.score >= 8000
    /\ llm_result.score = 2000
    /\ llm_result.factors = GoodFactors
    /\ result.score = rule_result.score
    /\ result.flags = JList(rule_result.flags)

\* C6: under cascade with a rule score strictly between 0.2 and 0.8, the
\* result carries the model's score and risk factors when a model score is
\* available, and otherwise the rule score and flags with the explanation
\* that the rules were uncertain and the model unavailable.
C6_CascadeUncertain ==
    (/\ strategy = "cascade"
     /\ pc \in {"returned", "raised", "responded"}
     /\ rule_result.score > 2000 /\ rule_result.score < 8000)
    => /\ result.exc = None
       /\ llm_result.score # NoScore
          => /\ result.score = llm_result.score
             /\ result.flags = llm_result.factors
       /\ llm_result.score = NoScore
          => /\ result.score = rule_result.score
             /\ result.flags = JList(rule_result.flags)
             /\ result.explanation.msg = "Uncertain, LLM unavailable"

C6_Witness ==
    /\ strategy = "cascade"
    /\ pc = "returned"
    /\ rule_result.score = 5000
    /\ llm_result.score = 8000
    /\ result.score = 8000
    /\ result.flags = GoodFactors

\* C7: a max merge that has a model score returns the larger of the two
\* scores with the flags and the explanation of the side that won; when the
\* scores are equal the rule side wins.
C7_MaxMerge ==
    (/\ strategy = "max"
     /\ pc \in {"returned", "raised", "responded"}
     /\ llm_result.score # NoScore)
    => /\ result.exc = None
       /\ result.score = Max(rule_result.score, llm_result.score)
       /\ llm_result.score > rule_result.score
          => /\ result.flags = llm_result.factors
             /\ result.explanation.msg = "LLM detected higher risk"
             /\ result.explanation.reasoning = llm_result.reasoning
       /\ llm_result.score <= rule_result.score
          => /\ result.flags = JList(rule_result.flags)
             /\ result.explanation.msg = "Rule-based detected higher risk"

C7_Witness ==
    /\ strategy = "max"
    /\ pc = "returned"
    /\ llm_result.score = rule_result.score
    /\ llm_result.factors = GoodFactors
    /\ result.score = rule_result.score
    /\ result.flags = JList(rule_result.flags)
    /\ result.flags # llm_result.factors

\* C8: the risk level answered is critical from the high-risk threshold up,
\* else high from the fraud threshold up, else medium from 0.25 up, else low,
\* for the result of every strategy.
C8_RiskLevel ==
    (pc = "responded" /\ response.status = 200)
    => /\ response.fraud_score = result.score
       /\ response.risk_level =
              IF result.score >= settings.high_risk_threshold THEN "critical"
              ELSE IF result.score >= settings.fraud_threshold THEN "high"
              ELSE IF result.score >= 2500 THEN "medium"
              ELSE "low"

C8_Witness ==
    /\ pc = "responded"
    /\ response.status = 200
    /\ strategy = "max"
    /\ settings.fraud_threshold = 3000
    /\ response.fraud_score = 3000
    /\ response.risk_level = "high"

\* C9: the score of the rule evaluator lies within [0, 1] for every
\* transaction, the one on which every check fires included.
C9_RuleScoreInRange ==
    pc = "rules_done" => (0 <= rule_result.score /\ rule_result.score <= One)

C9_Witness ==
    /\ pc = "rules_done"
    /\ Len(rule_result.flags) = 5
    /\ rule_raw_score(transaction) > One
    /\ rule_result.score = One

\* C10: the final score the combiner returns lies within [0, 1] for every
\* transaction, strategy and outcome of the model call.
C10_FinalScoreInRange ==
    pc = "returned" => (0 <= result.score /\ result.score <= One)

\* C11: in weighted, cascade and max with the model path enabled, when the
\* detector call itself raises, predict still returns, and the merge is the one
\* computed with the model score equal to the rule score and no risk factors:
\* the score is the weighted sum of the rule score with itself under weighted
\* and the rule score under cascade and max; the flags are the rule flags,
\* except in the uncertain band of cascade, where they are the (empty) model
\* factors.
C11_DetectorRaiseSubstitutesRuleScore ==
    (/\ outcome = DetectorError
     /\ strategy \in {"weighted", "cascade", "max"}
     /\ pc \in {"combine", "returned", "raised", "responded"})
    => /\ settings.use_llm
       /\ pc # "raised"
       /\ llm_result.score = rule_result.score
       /\ pc \in {"returned", "responded"}
          => /\ result.exc = None
             /\ Elems(result.flags) =
                    IF strategy = "cascade"
                       /\ rule_result.score > 2000 /\ rule_result.score < 8000
                    THEN {}
                    ELSE Range(rule_result.flags)
             /\ result.score =
                    IF strategy = "weighted"
                    THEN (rule_result.score * settings.rules_weight) \div One
                         + (rule_result.score * settings.llm_weight) \div One
                    ELSE rule_result.score

C11_Witness ==
    /\ outcome = DetectorError
    /\ strategy = "weighted"
    /\ pc = "returned"
    /\ settings.llm_weight = 9000
    /\ rule_result.score = 5000
    /\ result.score = 6500

\* C12: an internal error raised while the results are combined, in any
\* strategy (inside the merge step and inside llm_only included), is caught by
\* predict, which returns the rules-only result instead of failing.
C12_ErrorsCaughtAtBoundary ==
    pc \in {"returned", "raised"}
    => /\ result.exc = None
       /\ (\/ (strategy = "llm_only" /\ outcome = DetectorError)
           \/ (strategy \notin {"llm_only", "rules_only"}
               /\ combine(strategy, rule_result.score, JList(rule_result.flags),
                          llm_result.score, llm_result.factors,
                          llm_result.reasoning).exc # None))
          => /\ result.score = FraudDetector_predict(transaction).score
             /\ result.flags = JList(FraudDetector_predict(transaction).flags)

\* C13: under weighted and max with the model path disabled there is no model
\* score, the detector is not called, and score and flags are exactly the rule
\* evaluator's for the transaction, as rules_only returns them.
C13_NoModelFallsBackToRules ==
    (/\ strategy \in {"weighted", "max"}
     /\ ~settings.use_llm
     /\ pc \in {"returned", "raised", "responded"})
    => /\ pc # "raised"
       /\ result.exc = None
       /\ llm_result.score = NoScore
       /\ log = <<"rules">>
       /\ result.score = FraudDetector_predict(transaction).score
       /\ result.flags = JList(FraudDetector_predict(transaction).flags)

C13_Witness ==
    /\ strategy = "weighted"
    /\ ~settings.use_llm
    /\ pc = "returned"
    /\ result.score = 3500
    /\ result.flags = JList(<<"high_amount", "missing_device_info">>)

\* C14: under rules_only the detector is never called, score and flags are the
\* rule evaluator's output, and the explanation lists the triggered flags or is
\* the fixed string when none fired; a transaction that triggers exactly
\* high_amount and missing_device_info scores 0.35 and, under a fraud threshold
\* of 0.5, is answered with risk level medium.
C14_RulesOnly ==
    (strategy = "rules_only" /\ pc \in {"returned", "raised", "responded"})
    => /\ pc # "raised"
       /\ result.exc = None
       /\ log = <<"rules">>
       /\ llm_result = NoLLMResult
       /\ outcome = NoOutcome
       /\ result.score = FraudDetector_predict(transaction).score
       /\ result.flags = JList(FraudDetector_predict(transaction).flags)
       /\ result.explanation =
              IF result.flags.items = <<>>
              THEN [msg |-> "No red flags detected", rule |-> NoScore, llm |-> NoScore,
                    reasoning |-> JStr("")]
              ELSE [msg |-> "Rule-based detection", rule |-> NoScore, llm |-> NoScore,
                    reasoning |-> result.flags]
       /\ result.flags.items = <<"high_amount", "missing_device_info">>
          => /\ result.score = 3500
             /\ (pc = "responded" /\ settings.fraud_threshold = 5000)
                => (response.status = 200 /\ response.risk_level = "medium")

C14_Witness ==
    /\ strategy = "rules_only"
    /\ pc = "responded"
    /\ settings.fraud_threshold = 5000
    /\ result.flags.items = <<"high_amount", "missing_device_info">>
    /\ result.explanation.reasoning = result.flags
    /\ response.fraud_score = 3500
    /\ response.risk_level = "medium"

\* C15: under llm_only with the model path disabled predict returns 0.5 with
\* the flags [llm_disabled] and the explanation "LLM is disabled", calling
\* neither the detector nor the rule evaluator; with the model path enabled,
\* what it returns is exactly the detector's score, risk factors and reasoning.
C15_LlmOnly ==
    (strategy = "llm_only" /\ pc \in {"returned", "responded"} /\ result.exc = None)
    => /\ rule_result = NoRuleResult
       /\ "rules" \notin Range(log)
       /\ ~settings.use_llm
          => /\ result.score = 5000
             /\ result.flags = JList(<<"llm_disabled">>)
             /\ result.explanation.msg = "LLM is disabled"
             /\ log = <<>>
             /\ llm_result = NoLLMResult
             /\ outcome = NoOutcome
       /\ settings.use_llm
          => /\ llm_result = LLMFraudDetector_predict(transaction, NoScore, JNull, outcome)
             /\ result.score = llm_result.score
             /\ result.flags = llm_result.factors
             /\ result.explanation.reasoning = llm_result.reasoning
             /\ log \in {<<"detector">>, <<"detector", "request">>}

C15_Witness ==
    /\ strategy = "llm_only"
    /\ pc = "returned"
    /\ ~settings.use_llm
    /\ result.score = 5000
    /\ result.flags = JList(<<"llm_disabled">>)
    /\ log = <<>>

\* C16: for a strategy string outside the five names, predict raises nothing
\* and returns the score and the flag set that weighted returns for the same
\* transaction, settings and outcome of the model call.
C16_UnknownStrategyIsWeighted ==
    (strategy \notin KnownStrategies /\ pc \in {"returned", "raised"})
    => /\ pc = "returned"
       /\ result.exc = None
       /\ result.score =
              weighted_combination(rule_result.score, JList(rule_result.flags),
                                   llm_result.score, llm_result.factors,
                                   llm_result.reasoning).score
       /\ Elems(result.flags) =
              Elems(weighted_combination(rule_result.score, JList(rule_result.flags),
                                         llm_result.score, llm_result.factors,
                                         llm_result.reasoning).flags)

\* C17: of two transactions that differ only in the amount, one below 1000 and
\* one above 5000, the one with the amount above 5000 has a rule score that is
\* not lower.
C17_MonotoneInAmount ==
    (pc = "rules_done" /\ transaction.amount > 5000)
    => \A a \in {x \in Amounts : x < 1000} :
           FraudDetector_predict([transaction EXCEPT !.amount = a]).score
               <= rule_result.score

C17_Witness ==
    /\ pc = "rules_done"
    /\ transaction.amount > 5000
    /\ transaction.payment_method = "bank_transfer"
    /\ rule_result.score = 4000
    /\ FraudDetector_predict([transaction EXCEPT !.amount = 49]).score = 1000

C20_RuleDeltasAndFlags ==
    pc = "rules_done" =>
        LET t == transaction
            delta(f) ==
                CASE f = "very_high_amount" -> 4000
                  [] f = "high_amount" -> 2000
                  [] f = "high_risk_country" -> 3000
                  [] f = "unusual_hours" -> 1500
                  [] f = "high_amount_credit_card" -> 2000
                  [] f = "unusual_payment_method_for_amount" -> 1000
                  [] f = "missing_device_info" -> 1500
            triggered(f) ==
                CASE f = "very_high_amount" -> t.amount >= 5000
                  [] f = "high_amount" -> t.amount >= 1000 /\ t.amount < 5000
                  [] f = "high_risk_country" -> t.country \in {"NG", "RU", "CN", "BR"}
                  [] f = "unusual_hours" -> t.hour >= 23 \/ t.hour <= 5
                  [] f = "high_amount_credit_card" ->
                         t.payment_method = "credit_card" /\ t.amount > 2000
                  [] f = "unusual_payment_method_for_amount" ->
                         t.payment_method = "bank_transfer" /\ t.amount < 50
                  [] f = "missing_device_info" -> t.device_id \in {None, ""}
            order == <<"very_high_amount", "high_amount", "high_risk_country",
                       "unusual_hours", "high_amount_credit_card",
                       "unusual_payment_method_for_amount", "missing_device_info">>
            total[n \in 0..7] ==
                IF n = 0 THEN 0
                ELSE total[n - 1] + (IF triggered(order[n]) THEN delta(order[n]) ELSE 0)
            flags == rule_result.flags
        IN /\ rule_result.score = (IF total[7] < 10000 THEN total[7] ELSE 10000)
           /\ flags = SelectSeq(order, triggered)
           /\ \A i, j \in 1..Len(flags) : flags[i] = flags[j] => i = j
           /\ ~({"very_high_amount", "high_amount"} \subseteq Range(flags))
           /\ ~({"high_amount_credit_card", "unusual_payment_method_for_amount"}
                    \subseteq Range(flags))

C20_Witness ==
    /\ pc = "rules_done"
    /\ transaction.hour = 5
    /\ rule_result.score = 6500
    /\ rule_result.flags = <<"high_amount", "high_risk_country", "unusual_hours">>

\* C21: an extracted object is accepted only when it carries all four fields
\* with the right types (is_fraud a boolean, confidence a number in [0, 1],
\* reasoning a string, risk_factors a list of strings); any other object, and
\* an extraction that found nothing, goes to the keyword fallback, so what
\* the detector returns has a string reasoning and a list of string factors.
C21_OnlyWellFormedAccepted ==
    (pc = "detected" /\ outcome.kind = "text"
        /\ llm_result.factors # JList(<<"llm_error">>)) =>
        LET v == parse_json_response(outcome.text)
            f == v.fields
            wellformed ==
                /\ v.type = "dict"
                /\ f.is_fraud.type = "bool"
                /\ f.confidence.type \in {"num", "bool"}
                /\ 0 <= NumValue(f.confidence) /\ NumValue(f.confidence) <= One
                /\ f.reasoning.type = "str"
                /\ f.risk_factors.type = "list"
                /\ \A i \in 1..Len(f.risk_factors.items) :
                       ItemHashable(f.risk_factors.items[i])
        IN /\ (v.type \in {"dict", "null"} /\ ~wellformed) =>
                  llm_result.factors = JList(<<"fallback_parse_used">>)
           /\ v.type \in {"dict", "null"} =>
                  /\ llm_result.reasoning.type = "str"
                  /\ llm_result.factors.type = "list"

\* C22: whatever the strategy and the model's outcome, the flag list of a
\* returned result names no flag twice, and each of its flags came from a
\* source that contributed (the rule flags, the model's risk factors, or the
\* llm_disabled marker).
C22_FlagsUniqueFromSources ==
    (pc = "returned" /\ result.flags.type = "list") =>
        /\ result.flags.ordered =>
               \A i, j \in 1..Len(result.flags.items) :
                   result.flags.items[i] = result.flags.items[j] => i = j
        /\ Elems(result.flags) \subseteq
               Range(rule_result.flags) \cup Elems(llm_result.factors) \cup {"llm_disabled"}

\* C23: when the keyword fallback is taken, the verdict is fraud exactly
\* when the text holds more fraud keywords than safe keywords (a tie is not
\* fraud); the confidence is min(0.5 + 0.1 * fraudCount, 0.9) for fraud and
\* max(0.5 - 0.1 * safeCount, 0.1) otherwise; the reasoning is the first 200
\* characters of the text; the risk factors are [fallback_parse_used].
C23_KeywordFallback ==
    (pc = "detected" /\ outcome.kind = "text" /\ prompt.exc = None
        /\ LET parsed == parse_json_response(outcome.text)
           IN ~Truthy(parsed) \/ validate_analysis(parsed) = "False") =>
        LET fc == fraud_count(outcome.text)
            sc == safe_count(outcome.text)
            analysis == parse_response(outcome.text).analysis
        IN /\ analysis.fields.is_fraud = JBool(fc > sc)
           /\ analysis.fields.confidence =
                  JNum(IF fc > sc THEN Min(5000 + 1000 * fc, 9000)
                       ELSE Max(5000 - 1000 * sc, 1000))
           /\ llm_result.exc = None
           /\ llm_result.score = NumValue(analysis.fields.confidence)
           /\ llm_result.reasoning = JRaw(Prefix(outcome.text, 200))
           /\ llm_result.factors = JList(<<"fallback_parse_used">>)

\* A tie of two fraud and two safe keywords: not fraud, confidence 0.3.
C23_Witness ==
    /\ pc = "detected"
    /\ outcome.kind = "text"
    /\ llm_result.factors = JList(<<"fallback_parse_used">>)
    /\ fraud_count(outcome.text) = 2
    /\ safe_count(outcome.text) = 2
    /\ llm_result.score = 3000

\* C24: the prompt builder renders the rule section exactly when a prior
\* rule score was passed, and for every combination of a passed or absent
\* rule score and passed or absent rule flags it returns a prompt without
\* raising.
C24_RuleSectionIffScore ==
    pc = "detected" =>
        /\ prompt.exc = None
        /\ prompt.rule_section <=> (rule_result.score # NoScore)

\* C25: when the call of the detector raises in weighted, cascade or max,
\* the final score is the rule score (the weights summing to 1.0) and the
\* returned flags hold every rule flag, whatever the rule score, the
\* uncertain band of cascade included.
C25_DetectorRaiseKeepsRuleOutput ==
    (pc = "returned" /\ outcome = DetectorError
        /\ strategy \in {"weighted", "cascade", "max"}) =>
        /\ settings.rules_weight + settings.llm_weight = One =>
               result.score = rule_result.score
        /\ Range(rule_result.flags) \subseteq Elems(result.flags)

\* C26: the detector's score is the confidence and does not depend on
\* is_fraud: for a validated response, the same response with is_fraud
\* negated gives the same score, risk factors and reasoning, and so the same
\* final score and the same risk level under every strategy.  (The score is
\* the confidence when STEP 4 returns; risk factors without a length end in
\* the except clause, for either value of is_fraud.)
C26_VerdictIgnored ==
    (pc \in {"returned", "responded"} /\ result.exc = None
        /\ outcome.kind = "text" /\ Len(outcome.text) = 1
        /\ outcome.text[1].k = "json" /\ outcome.text[1].v.type = "dict"
        /\ validate_analysis(outcome.text[1].v) = "True") =>
        LET v == outcome.text[1].v
            negated == [v EXCEPT !.fields.is_fraud = JBool(~v.fields.is_fraud.b)]
            other == IF strategy = "llm_only"
                     THEN LLMFraudDetector_predict(transaction, NoScore, JNull,
                                                   Outcome("text", <<Json(negated)>>))
                     ELSE LLMFraudDetector_predict(transaction, rule_result.score,
                                                   JList(rule_result.flags),
                                                   Outcome("text", <<Json(negated)>>))
            final == IF strategy = "llm_only" THEN other.score
                     ELSE combine(strategy, rule_result.score, JList(rule_result.flags),
                                  other.score, other.factors, other.reasoning).score
        IN /\ v.fields.risk_factors.type \in {"absent", "list", "str", "dict"} =>
                  llm_result.score = NumValue(v.fields.confidence)
           /\ other.score = llm_result.score
           /\ other.factors = llm_result.factors
           /\ other.reasoning = llm_result.reasoning
           /\ result.score = final
           /\ (pc = "responded" /\ response.status = 200) =>
                  response.risk_level = get_risk_level(final)

\* The model says "not fraud" with confidence 0.8; the response is critical.
C26_Witness ==
    /\ pc = "responded"
    /\ strategy = "llm_only"
    /\ settings = DefaultSettings
    /\ outcome.kind = "text"
    /\ Len(outcome.text) = 1
    /\ outcome.text[1].k = "json"
    /\ outcome.text[1].v.fields.is_fraud = JBool(FALSE)
    /\ outcome.text[1].v.fields.confidence = JNum(8000)
    /\ response.status = 200
    /\ response.fraud_score = 8000
    /\ response.risk_level = "critical"

====
